---- MODULE Spec2Model ----
(***************************************************************************)
(* A model of subsearch (src/subsearch.py): the subtitle index with its    *)
(* add / remove / search commands, the gzip-JSON analysis cache, and the   *)
(* clip boundary computation get_clip_times.                               *)
(*                                                                         *)
(* Three specifications share the variables:                               *)
(*   Spec      the command line session: add, rm, search on one database   *)
(*   SpecCache the Cache class used directly: get, set, pop                *)
(*   SpecClip  get_clip_times applied to bounded inputs                    *)
(*   SpecRace  two processes calling Cache.get / Cache.set on one key      *)
(*                                                                         *)
(* Conventions.  A path is the sequence of its "/"-separated components,   *)
(* an absolute path starts with the component "/".  A Python string is     *)
(* held the same way (a sequence of components).  Times are exact          *)
(* rationals held as integer ticks: inputs are given in milliseconds and   *)
(* one millisecond is Tick = 6 ticks, so that x/2 and x/3 are exact;       *)
(* floating point rounding is not modelled.                                *)
(***************************************************************************)
EXTENDS Integers, Sequences, FiniteSets, TLC

\* ------------------------------------------------------------------ bounds
\* the files a session of commands works on in all: a command is started
\* while its files (add, rm), its results (search) or itself (init) fit
MaxOps == 3
\* largest time stamp (s) of events and silences drawn for get_clip_times
MaxT == 4
\* largest wiggle (s) drawn for get_clip_times
MaxW == 2
\* longest silence list drawn for get_clip_times
MaxSil == 2
\* largest number stored through the Cache class in SpecCache
MaxNum == 1

\* times are counted in ticks, so that / 2 and / 3 are exact: ticks per
\* millisecond
Tick == 6
\* event.start / 1000: the milliseconds of a second
MsPerSec == 1000
\* ticks per second
TickS == MsPerSec * Tick

Max2(a, b) == IF a >= b THEN a ELSE b
Min2(a, b) == IF a <= b THEN a ELSE b

\* ------------------------------------------------------------- os.path
\* the working directory of the process
Cwd == <<"/", "home">>

IsAbs(p) == Len(p) > 0 /\ p[1] = "/"

\* os.path.join(a, b)
Join(a, b) == IF IsAbs(b) THEN b ELSE a \o b

RECURSIVE NormFold(_, _)
NormFold(acc, rest) ==
    IF rest = <<>> THEN acc
    ELSE LET c == Head(rest) IN
         IF c = "." THEN NormFold(acc, Tail(rest))
         ELSE IF c # ".." THEN NormFold(Append(acc, c), Tail(rest))
         ELSE IF acc = <<>> \/ acc[Len(acc)] = ".."
              THEN NormFold(Append(acc, ".."), Tail(rest))
         ELSE IF acc[Len(acc)] = "/" THEN NormFold(acc, Tail(rest))
         ELSE NormFold(SubSeq(acc, 1, Len(acc) - 1), Tail(rest))

\* os.path.normpath(p): "." dropped, ".." collapsed lexically
NormPath(p) ==
    LET r == IF IsAbs(p) THEN NormFold(<<"/">>, Tail(p)) ELSE NormFold(<<>>, p)
    IN  IF r = <<>> THEN <<".">> ELSE r

\* os.path.abspath(p)
AbsPath(p) == NormPath(Join(Cwd, p))

RECURSIVE CommonPrefixLen(_, _)
CommonPrefixLen(a, b) ==
    IF a = <<>> \/ b = <<>> THEN 0
    ELSE IF Head(a) # Head(b) THEN 0
    ELSE 1 + CommonPrefixLen(Tail(a), Tail(b))

RECURSIVE Repeat(_, _)
Repeat(x, n) == IF n <= 0 THEN <<>> ELSE <<x>> \o Repeat(x, n - 1)

\* os.path.relpath(p, start)
RelPath(p, start) ==
    LET sl  == Tail(AbsPath(start))
        pl  == Tail(AbsPath(p))
        i   == CommonPrefixLen(sl, pl)
        rel == Repeat("..", Len(sl) - i) \o SubSeq(pl, i + 1, Len(pl))
    IN  IF rel = <<>> THEN <<".">> ELSE rel

\* ------------------------------------------------------- the file system
\* one directory of media files, named on the command line relative to Cwd
MediaDir == <<"vid">>

\* os.listdir(MediaDir): the entries in the order the file system gives them
ListDir(d) == <<"b.mkv", "ab.mkv", "a.mkv">>

IsDir(p) == p = MediaDir

MediaFiles == {Join(MediaDir, <<ListDir(MediaDir)[i]>>) : i \in 1..Len(ListDir(MediaDir))}

\* a path names a media file when it resolves, from Cwd, to one of them
Exists(p) == \E f \in MediaFiles : AbsPath(p) = AbsPath(f)

\* the code points of the entry names, as sorted() compares them
CodePoints(name) ==
    CASE name = "a.mkv"  -> <<97, 46, 109, 107, 118>>
      [] name = "ab.mkv" -> <<97, 98, 46, 109, 107, 118>>
      [] name = "b.mkv"  -> <<98, 46, 109, 107, 118>>

RECURSIVE LexLess(_, _)
LexLess(a, b) ==
    IF b = <<>> THEN FALSE
    ELSE IF a = <<>> THEN TRUE
    ELSE IF Head(a) # Head(b) THEN Head(a) < Head(b)
    ELSE LexLess(Tail(a), Tail(b))

RECURSIVE Insert(_, _)
Insert(x, s) ==
    IF s = <<>> THEN <<x>>
    ELSE IF LexLess(CodePoints(x), CodePoints(Head(s))) THEN <<x>> \o s
    ELSE <<Head(s)>> \o Insert(x, Tail(s))

RECURSIVE Sorted(_)
\* sorted(names)
Sorted(s) == IF s = <<>> THEN <<>> ELSE Insert(Head(s), Sorted(Tail(s)))

\* mutant: the listing is not sorted
ApplyRecursiveUnsorted(path) ==
    LET names == ListDir(path)
    IN  [i \in 1..Len(names) |-> Join(path, <<names[i]>>)]

\* Database.apply_recursive: the calls method(full) it makes, in order
ApplyRecursive(path) ==
    LET names == Sorted(ListDir(path))
    IN  [i \in 1..Len(names) |-> Join(path, <<names[i]>>)]

\* the events of the longest subtitle track of a media file (pysubs2 events,
\* start and end in ms)
SubsOf(real) ==
    LET name == real[Len(real)] IN
    CASE name = "a.mkv" ->
           << [start |-> 2000, end |-> 4000, is_comment |-> FALSE, plaintext |-> "hello"],
              [start |-> 0,    end |-> 9000, is_comment |-> TRUE,  plaintext |-> "note"],
              [start |-> 5000, end |-> 6000, is_comment |-> FALSE, plaintext |-> "world"] >>
      [] name = "ab.mkv" ->
           << [start |-> 1000, end |-> 1000, is_comment |-> TRUE, plaintext |-> "note"] >>
      [] OTHER ->
           << [start |-> 2000, end |-> 4000, is_comment |-> FALSE, plaintext |-> "hello"] >>

\* what FFmpeg.read_subs / SSAFile.from_string can do on a file
ReadSubsOutcomes == {"ok", "CalledProcessError", "ValueError"}

\* what FFmpeg.read_volume_stats can do: ffprobe or ffmpeg exits non-zero
\* (CalledProcessError), the output has no duration=, mean_volume: or
\* max_volume: line (re.search(...) is None: AttributeError), or float()
\* refuses the text matched (ValueError)
AnalysisOutcomes == {"ok", "CalledProcessError", "ValueError", "AttributeError"}

\* what FFmpeg.read_silences can do: ffmpeg exits non-zero, or the counts of
\* starts, ends and durations differ (ValueError)
SilenceOutcomes == {"ok", "CalledProcessError", "ValueError"}

\* what FFmpeg.get_clip and FFmpeg.get_image can do: read_subs finds no
\* subtitle track (ValueError) or the last ffmpeg attempt exits non-zero
RenderOutcomes == {"ok", "CalledProcessError", "ValueError"}

\* what do_upload can do: the post goes through or requests raises
UploadOutcomes == {"ok", "RequestException"}

\* ------------------------------------------------------- Python values
PyNone       == [tag |-> "none",     num |-> 0, str |-> <<>>, items |-> <<>>]
PyNum(n)     == [tag |-> "num",      num |-> n, str |-> <<>>, items |-> <<>>]
PyStr(s)     == [tag |-> "str",      num |-> 0, str |-> s,    items |-> <<>>]
PyList(xs)   == [tag |-> "list",     num |-> 0, str |-> <<>>, items |-> xs]
PyTuple(xs)  == [tag |-> "tuple",    num |-> 0, str |-> <<>>, items |-> xs]
\* a function object (a miss callback handed back by Cache.get)
PyCallable   == [tag |-> "callable", num |-> 0, str |-> <<>>, items |-> <<>>]

RECURSIVE JsonDumps(_)
\* json.dump: the JSON text, held as its syntax tree; lists and tuples both
\* become arrays
JsonDumps(v) ==
    IF v.tag \in {"list", "tuple"}
    THEN [tag |-> "array", num |-> 0, str |-> <<>>,
          items |-> [i \in 1..Len(v.items) |-> JsonDumps(v.items[i])]]
    ELSE v

RECURSIVE JsonLoads(_)
\* json.load: arrays come back as lists
JsonLoads(t) ==
    IF t.tag = "array"
    THEN [tag |-> "list", num |-> 0, str |-> <<>>,
          items |-> [i \in 1..Len(t.items) |-> JsonLoads(t.items[i])]]
    ELSE t

\* ---------------------------------------------------------------- Cache
\* Cache._normalize_key: the file name of a key.  sha1 is taken to be
\* injective, so the file is named by the JSON text of the key itself.
NormalizeKey(key) == JsonDumps(key)

EmptyStore == [f \in {} |-> PyNone]

\* writing JSON text to a file in the cache directory
WriteFile(store, f, text) ==
    [g \in DOMAIN store \cup {f} |-> IF g = f THEN text ELSE store[g]]

\* os.unlink of a file that exists
Unlink(store, f) == [g \in DOMAIN store \ {f} |-> store[g]]

\* Cache.set(key, value): the store afterwards and the value returned
CacheSet(store, key, value) ==
    [store |-> WriteFile(store, NormalizeKey(key), JsonDumps(value)),
     value |-> value]

\* a miss argument of Cache.get: a plain default value ...
Default(v) == [callable |-> FALSE, outcome |-> "none", value |-> v]
\* ... or a callback, which returns a value or raises
Callback(outcome, v) == [callable |-> TRUE, outcome |-> outcome, value |-> v]

\* mutant: the computed value is returned without being stored
CacheGetNoStore(store, key, miss) ==
    LET p == NormalizeKey(key) IN
    IF p \in DOMAIN store
    THEN [store |-> store, value |-> JsonLoads(store[p]), calls |-> 0, exc |-> "none"]
    ELSE IF ~miss.callable
         THEN [store |-> store, value |-> miss.value, calls |-> 0, exc |-> "none"]
    ELSE IF miss.outcome = "ok"
         THEN [store |-> store, value |-> miss.value, calls |-> 1, exc |-> "none"]
    ELSE IF miss.outcome = "TypeError"
         THEN [store |-> store, value |-> PyCallable, calls |-> 1, exc |-> "none"]
    ELSE [store |-> store, value |-> PyNone, calls |-> 1, exc |-> miss.outcome]

\* Cache.get(key, miss): the store afterwards, the value returned, the number
\* of times miss was called and the exception that escapes ("none" if none)
CacheGet(store, key, miss) ==
    LET p == NormalizeKey(key) IN
    IF p \in DOMAIN store
    THEN [store |-> store, value |-> JsonLoads(store[p]), calls |-> 0, exc |-> "none"]
    ELSE IF ~miss.callable
         \* miss() raises TypeError, which get catches: value = miss
         THEN [store |-> store, value |-> miss.value, calls |-> 0, exc |-> "none"]
    ELSE IF miss.outcome = "ok"
         THEN [store |-> CacheSet(store, key, miss.value).store,
               value |-> miss.value, calls |-> 1, exc |-> "none"]
    ELSE IF miss.outcome = "TypeError"
         THEN [store |-> store, value |-> PyCallable, calls |-> 1, exc |-> "none"]
    ELSE [store |-> store, value |-> PyNone, calls |-> 1, exc |-> miss.outcome]

\* mutant: the file is not unlinked
CachePopKeep(store, key) ==
    [store |-> store, value |-> CacheGet(store, key, Default(PyNone)).value]

\* Cache.pop(key): get(key) with miss = None, then unlink, errors ignored
CachePop(store, key) ==
    LET g == CacheGet(store, key, Default(PyNone))
        p == NormalizeKey(key)
    IN  [store |-> IF p \in DOMAIN g.store THEN Unlink(g.store, p) ELSE g.store,
         value |-> g.value]

\* the keys Database and the search command use: (path, kind)
AnalysisKey(path, kind) == PyTuple(<<PyStr(path), PyStr(<<kind>>)>>)

\* ------------------------------------------------------- get_clip_times
RECURSIVE PreRollNoFloor(_, _, _, _, _)
\* mutant: the start is not held at ev_start - wiggle
PreRollNoFloor(silences, i, ev_start, wiggle, clip_start) ==
    IF i > Len(silences) THEN clip_start
    ELSE LET end == silences[i][2] * TickS
             dur == silences[i][3] * TickS
         IN  IF ev_start - wiggle <= end /\ end <= ev_start + wiggle
             THEN Max2(end - Min2(dur \div 3, wiggle \div 2), 0)
             ELSE PreRollNoFloor(silences, i + 1, ev_start, wiggle, clip_start)

RECURSIVE PreRoll(_, _, _, _, _)
\* the first loop: the clip start after scanning silences[i..]
PreRoll(silences, i, ev_start, wiggle, clip_start) ==
    IF i > Len(silences) THEN clip_start
    ELSE LET end == silences[i][2] * TickS
             dur == silences[i][3] * TickS
         IN  IF ev_start - wiggle <= end /\ end <= ev_start + wiggle
             THEN Max2(Max2(end - Min2(dur \div 3, wiggle \div 2), ev_start - wiggle), 0)
             ELSE PreRoll(silences, i + 1, ev_start, wiggle, clip_start)

RECURSIVE PostRollForward(_, _, _, _, _, _)
PostRollForward(silences, i, ev_end, wiggle, clip_start, clip_duration) ==
    IF i > Len(silences) THEN clip_duration
    ELSE LET start == silences[i][1] * TickS
             dur   == silences[i][3] * TickS
         IN  IF ev_end - wiggle <= start /\ start <= ev_end + wiggle
             THEN Max2(Min2((start + Min2(dur \div 3, wiggle \div 2)) - clip_start,
                            (ev_end + wiggle) - clip_start), 0)
             ELSE PostRollForward(silences, i + 1, ev_end, wiggle, clip_start, clip_duration)

\* mutant: the second loop scans silences, not silences[::-1]
PostRollAscending(silences, i, ev_end, wiggle, clip_start, clip_duration) ==
    PostRollForward(silences, 1, ev_end, wiggle, clip_start, clip_duration)

RECURSIVE PostRollUnclamped(_, _, _, _, _, _)
\* mutant: the duration is not clamped at 0
PostRollUnclamped(silences, i, ev_end, wiggle, clip_start, clip_duration) ==
    IF i < 1 THEN clip_duration
    ELSE LET start == silences[i][1] * TickS
             dur   == silences[i][3] * TickS
         IN  IF ev_end - wiggle <= start /\ start <= ev_end + wiggle
             THEN Min2((start + Min2(dur \div 3, wiggle \div 2)) - clip_start,
                       (ev_end + wiggle) - clip_start)
             ELSE PostRollUnclamped(silences, i - 1, ev_end, wiggle, clip_start,
                                    clip_duration)

RECURSIVE PostRoll(_, _, _, _, _, _)
\* the second loop, over silences[::-1]: the duration after scanning
\* silences[i], silences[i-1], ...
PostRoll(silences, i, ev_end, wiggle, clip_start, clip_duration) ==
    IF i < 1 THEN clip_duration
    ELSE LET start == silences[i][1] * TickS
             dur   == silences[i][3] * TickS
         IN  IF ev_end - wiggle <= start /\ start <= ev_end + wiggle
             THEN Max2(Min2((start + Min2(dur \div 3, wiggle \div 2)) - clip_start,
                            (ev_end + wiggle) - clip_start), 0)
             ELSE PostRoll(silences, i - 1, ev_end, wiggle, clip_start, clip_duration)

\* get_clip_times(event, silences, wiggle): <<clip_start, clip_duration>> in
\* ticks; the event times are given in ms, the silences and wiggle in
\* seconds
GetClipTimes(event, silences, wiggleS) ==
    LET ev_start   == event.start * Tick
        ev_end     == event.end * Tick
        wiggle     == wiggleS * TickS
        clip_start == PreRoll(silences, 1, ev_start, wiggle, ev_start - (wiggle \div 2))
        clip_duration ==
            PostRoll(silences, Len(silences), ev_end, wiggle, clip_start,
                     (ev_end - ev_start) + wiggle)
    IN  <<clip_start, clip_duration>>

\* ------------------------------------------------------------- the state
VARIABLES
    relative,   \* Database.relative, the policy in subsearch-config.json
    dbpath,     \* Database.path, the dbpath argument of the commands
    index,      \* the committed documents of the whoosh index, in order
    writer,     \* the documents buffered in the open IndexWriter
    cache,      \* the cache directory: file name -> JSON text
    pc,         \* where the running command is: idle, add, write, audio, rm, search
    cmd,        \* the options of the running (or last) command
    todo,       \* the paths the running add / rm has still to visit
    res,        \* the results the running search has still to render
    cur,        \* the file Database.add is working on
    reports,    \* what the command has echoed through report / click.echo
    rendered,   \* the get_clip / get_image calls the command has made
    err,        \* the exception that ended the command, "none" if none
    ops,        \* the files the commands of the session have worked on
    last,       \* the step just taken and the state it started from
    shadow,     \* SpecCache: the finite map the cache is compared with
    lastOp,     \* SpecCache: the Cache call just made and what it returned
    clip,       \* SpecClip: the arguments and result of get_clip_times
    disk,       \* SpecRace: the bytes of the cache file of the contended key
    procs       \* SpecRace: where each process is in its Cache call

vars == <<relative, dbpath, index, writer, cache, pc, cmd, todo, res, cur,
          reports, rendered, err, ops, last, shadow, lastOp, clip, disk, procs>>

dbVars    == <<relative, dbpath, index, writer, pc, cmd, todo, res, cur,
               reports, rendered, err, ops, last>>
cacheVars == <<shadow, lastOp>>
clipVars  == <<clip>>
raceVars  == <<disk, procs>>

\* the dbpath arguments tried: a directory beside the media, and Cwd itself
DbPaths == {<<"db">>, <<".">>}

\* the paths arguments of add and rm
PathArgs == { <<MediaDir>>,
              <<Join(MediaDir, <<"b.mkv">>)>>,
              <<Join(MediaDir, <<"a.mkv">>)>>,
              <<Join(MediaDir, <<"b.mkv">>), Join(MediaDir, <<"a.mkv">>)>> }

Queries == {"hello"}

\* the --relative/--absolute option of add and rm: not given, or given
RelativeOptions == {"None", "relative", "absolute"}

\* if relative is None: relative = self.relative
Policy(opt, rel) == IF opt = "None" THEN rel ELSE opt = "relative"

\* the default of the --wiggle option of search (line 432) and add (line 404),
\* in seconds
SearchWiggle == 1
\* the default of the wiggle parameter of Database.add (line 336), in seconds
AddWiggle == 1

\* the --wiggle options tried (s)
Wiggles == {SearchWiggle, MaxW}

\* the --image options tried: not given, or a file name as os.path.splitext
\* splits it
ImageOptions == { <<>>, <<"out", ".png">> }

\* the add commands tried: every path argument under every policy option,
\* with and without --audio, and --wiggle given with --audio
AddArgs ==
    { [paths |-> p, opt |-> o, audio |-> a, wiggle |-> SearchWiggle] :
        p \in PathArgs, o \in RelativeOptions, a \in BOOLEAN }
    \cup { [paths |-> p, opt |-> "None", audio |-> TRUE, wiggle |-> w] :
             p \in PathArgs, w \in Wiggles }

\* the rm commands tried
RmArgs == { [paths |-> p, opt |-> o] : p \in PathArgs, o \in RelativeOptions }

\* the search commands tried: --webm, --accurate and --rand in every
\* combination, and --wiggle, --upload and --image each given with and
\* without --webm
SearchArgs ==
    { [webm |-> w, accurate |-> a, rand |-> r, wiggle |-> SearchWiggle,
       upload |-> FALSE, image |-> <<>>] : w \in BOOLEAN, a \in BOOLEAN, r \in BOOLEAN }
    \cup { [webm |-> TRUE, accurate |-> a, rand |-> FALSE, wiggle |-> w,
             upload |-> FALSE, image |-> <<>>] : a \in BOOLEAN, w \in Wiggles }
    \cup { [webm |-> w, accurate |-> FALSE, rand |-> FALSE, wiggle |-> SearchWiggle,
             upload |-> u, image |-> i] :
             w \in BOOLEAN, u \in BOOLEAN, i \in ImageOptions }

\* what silencedetect is asked for: noise = mean_vol * 0.9 (in tenths of a
\* dB) and duration = 0.3 * wiggle (in ticks)
Asked(mean_vol, wiggle) ==
    [noise |-> 9 * mean_vol.num, duration |-> (3 * wiggle * TickS) \div 10]
NoAsk == [noise |-> 0, duration |-> 0]

\* what read_volume_stats returns when it works: (mean_vol, max_vol)
VolumeStats == PyTuple(<<PyNum(-30), PyNum(-5)>>)

\* what read_silences returns when it works: a start-sorted list of
\* (start, end, duration) tuples
SilenceLists == { PyList(<<PyTuple(<<PyNum(1), PyNum(2), PyNum(1)>>)>>) }

\* for (start, end, dur) in silences: the triples of a silence list
Triples(v) == [i \in 1..Len(v.items) |->
                 <<v.items[i].items[1].num, v.items[i].items[2].num, v.items[i].items[3].num>>]

NoCmd == [name |-> "none", relative |-> FALSE, audio |-> FALSE,
          wiggle |-> SearchWiggle, query |-> "", webm |-> FALSE,
          accurate |-> FALSE, rand |-> FALSE, upload |-> FALSE, image |-> <<>>,
          dir |-> FALSE, files |-> 0, wiggles |-> <<>>]
NoCur == [real |-> <<>>, path |-> <<>>, events |-> <<>>]

Step(name, real, path, outcome) ==
    [step |-> name, real |-> real, path |-> path, outcome |-> outcome,
     asked |-> NoAsk, pre |-> index, preCache |-> cache]

\* no step taken yet
NoStep == [step |-> "init", real |-> <<>>, path |-> <<>>, outcome |-> "none",
           asked |-> NoAsk, pre |-> <<>>, preCache |-> EmptyStore]

\* the stored path of a file: lines 342-346 of add, 376-380 of remove
StoredPath(path, rel) ==
    IF rel THEN NormPath(RelPath(path, dbpath)) ELSE AbsPath(path)

\* Database.search: the documents whose content matches the query, with the
\* path joined back onto the database directory.  A query is one term and
\* matches the content it equals; the hits are kept in index order (whoosh
\* orders by score) and stay below whoosh's default limit of 10.
RECURSIVE DbSearch(_, _)
DbSearch(ix, query) ==
    IF ix = <<>> THEN <<>>
    ELSE LET d == Head(ix) IN
         (IF d.content = query
          THEN <<[path |-> NormPath(Join(dbpath, d.path)), content |-> d.content,
                  start |-> d.start, end |-> d.end]>>
          ELSE <<>>) \o DbSearch(Tail(ix), query)

\* mutant: the term matches the directory of the path, not the path
DeleteByTermDirectory(ix, path) ==
    SelectSeq(ix, LAMBDA d : SubSeq(d.path, 1, Len(d.path) - 1)
                               # SubSeq(path, 1, Len(path) - 1))

\* writer.delete_by_term('path', path)
DeleteByTerm(ix, path) == SelectSeq(ix, LAMBDA d : d.path # path)

\* a line (or group of lines) echoed: what it is about and its numbers
ReportBy(kind, path, by) == [kind |-> kind, path |-> path, by |-> by]
Report(kind, path) == ReportBy(kind, path, <<>>)

\* no Cache call made yet
NoCall == [op |-> "none", key |-> PyNone, callable |-> FALSE, outcome |-> "none",
           ret |-> PyNone, exc |-> "none"]
NoOp == [op |-> "none", key |-> PyNone, arg |-> PyNone, callable |-> FALSE,
         outcome |-> "none", ret |-> PyNone, calls |-> 0, exc |-> "none",
         pre |-> EmptyStore, preShadow |-> EmptyStore, prev |-> NoCall]
NoClip == [event |-> [start |-> 0, end |-> 0], silences |-> <<>>, wiggle |-> 0,
           done |-> FALSE, result |-> <<0, 0>>]

\* the processes that share the cache directory
Procs == {1, 2}

\* the files the cache directory can hold at once: the one under the name of
\* the key and one more for every process that keeps a file open after its
\* name is gone
Inodes == 1..(Cardinality(Procs) + 1)

\* the cache file does not exist: the name of the key leads to no file
NoFile == [name |-> 0, inodes |-> [i \in Inodes |-> <<>>]]

\* a process outside any Cache call
Idle == [pc |-> "idle", op |-> "none", callable |-> FALSE, value |-> PyNone,
         ino |-> 0, off |-> 0, piece |-> 0, buf |-> <<>>, fresh |-> FALSE,
         calls |-> 0, ret |-> PyNone, obs |-> "none"]
NoProcs == [p \in Procs |-> Idle]

Init ==
    /\ relative \in BOOLEAN
    /\ dbpath \in DbPaths
    /\ index = <<>>
    /\ writer = <<>>
    /\ cache = EmptyStore
    /\ pc = "idle"
    /\ cmd = NoCmd
    /\ todo = <<>>
    /\ res = <<>>
    /\ cur = NoCur
    /\ reports = <<>>
    /\ rendered = <<>>
    /\ err = "none"
    /\ ops = 0
    /\ last = NoStep
    /\ shadow = EmptyStore
    /\ lastOp = NoOp
    /\ clip = NoClip
    /\ disk = NoFile
    /\ procs = NoProcs

\* the number of files the paths of a command lead to
FileCount(paths) == IF IsDir(paths[1]) THEN Len(ListDir(paths[1])) ELSE Len(paths)

\* after a path is done: the loop goes on, or the command has returned
\* ("done": its output is complete and its process is about to end)
After(name, rest) == IF rest = <<>> THEN "done" ELSE name

\* ---------------------------------------------------------- the init command
\* init on the database that exists (lines 396-400, Database.create): the
\* index is created anew, the configuration is rewritten, the cache
\* directory and its files stay
CliInit(rel) ==
    /\ pc = "idle"
    /\ ops < MaxOps
    /\ ops' = ops + 1
    /\ relative' = rel
    /\ index' = <<>>
    /\ pc' = "done"
    /\ cmd' = [NoCmd EXCEPT !.name = "init", !.relative = rel]
    /\ last' = Step("CliInit", <<>>, <<>>, "ok")
    /\ UNCHANGED <<dbpath, writer, cache, todo, res, cur, reports, rendered, err>>

\* the process of a command ends: its output and its exception are over,
\* what stays is the database on disk
Exit ==
    /\ pc = "done"
    /\ pc' = "idle"
    /\ cmd' = NoCmd
    /\ todo' = <<>>
    /\ res' = <<>>
    /\ cur' = NoCur
    /\ writer' = <<>>
    /\ reports' = <<>>
    /\ rendered' = <<>>
    /\ err' = "none"
    /\ last' = NoStep
    /\ UNCHANGED <<relative, dbpath, index, cache, ops>>

\* ----------------------------------------------------------- the add command
\* add (lines 408-414): open the database and walk the paths
CliAdd(paths, opt, audio, wiggle) ==
    /\ pc = "idle"
    /\ ops + FileCount(paths) <= MaxOps
    /\ ops' = ops + FileCount(paths)
    /\ pc' = "add"
    /\ cmd' = [NoCmd EXCEPT !.name = "add", !.relative = Policy(opt, relative),
                            !.audio = audio, !.wiggle = wiggle,
                            !.dir = IsDir(paths[1]), !.files = FileCount(paths),
                            !.wiggles = [i \in 1..Len(paths) |-> wiggle]]
    /\ todo' = paths
    /\ last' = Step("CliAdd", <<>>, <<>>, "none")
    /\ UNCHANGED <<relative, dbpath, index, writer, cache, res, cur, reports, rendered, err>>

\* Database.add on a directory (lines 339-340): apply_recursive hands the
\* entries on without wiggle, so they get the default of line 336
AddDirectory ==
    /\ pc = "add"
    /\ IsDir(Head(todo))
    /\ todo' = ApplyRecursive(Head(todo)) \o Tail(todo)
    /\ cmd' = [cmd EXCEPT !.wiggles =
                  [i \in 1..Len(ApplyRecursive(Head(todo))) |-> AddWiggle] \o Tail(@)]
    /\ last' = Step("AddDirectory", Head(todo), <<>>, "none")
    /\ UNCHANGED <<ops, relative, dbpath, index, writer, cache, pc, res, cur,
                   reports, rendered, err>>

\* Database.add on a file whose subtitles cannot be read (lines 342-355)
AddExtractFailed(exc) ==
    /\ pc = "add"
    /\ ~IsDir(Head(todo))
    /\ LET real == Head(todo)
           path == StoredPath(real, cmd.relative)
       IN  /\ reports' = reports \o <<Report("path", path), Report("error", path)>>
           /\ last' = Step("AddExtractFailed", real, path, exc)
    /\ todo' = Tail(todo)
    /\ cmd' = [cmd EXCEPT !.wiggles = Tail(@)]
    /\ pc' = After("add", Tail(todo))
    /\ UNCHANGED <<ops, relative, dbpath, index, writer, cache, res, cur, rendered, err>>

\* Database.add on a file whose subtitles are read (lines 342-357)
AddExtracted ==
    /\ pc = "add"
    /\ ~IsDir(Head(todo))
    /\ LET real == Head(todo)
           path == StoredPath(real, cmd.relative)
       IN  /\ reports' = Append(reports, Report("path", path))
           /\ cur' = [real |-> real, path |-> path, events |-> SubsOf(real)]
           /\ last' = Step("AddExtracted", real, path, "ok")
    /\ writer' = <<>>
    /\ pc' = "write"
    /\ UNCHANGED <<ops, relative, dbpath, index, cache, cmd, todo, res, rendered, err>>

\* writer.add_document: the document is buffered in the writer
AddDocument(w, ev, path) ==
    Append(w, [path |-> path, start |-> ev.start, end |-> ev.end,
               content |-> ev.plaintext])

\* one turn of the loop over subs.events (lines 358-361)
AddEvent ==
    /\ pc = "write"
    /\ cur.events # <<>>
    /\ LET ev == Head(cur.events) IN
       writer' = IF ev.is_comment THEN writer ELSE AddDocument(writer, ev, cur.path)
    /\ cur' = [cur EXCEPT !.events = Tail(cur.events)]
    /\ last' = Step("AddEvent", cur.real, cur.path, "none")
    /\ UNCHANGED <<ops, relative, dbpath, index, cache, pc, cmd, todo, res,
                   reports, rendered, err>>

\* mutant: the last buffered document is lost at commit
CommitPartial(ix, w) == ix \o SubSeq(w, 1, Len(w) - 1)

\* writer.commit(): the buffered documents join the index
Commit(ix, w) == ix \o w

\* writer.commit() at the end of the loop (line 362)
AddCommit ==
    /\ pc = "write"
    /\ cur.events = <<>>
    /\ index' = Commit(index, writer)
    /\ writer' = <<>>
    /\ last' = Step("AddCommit", cur.real, cur.path, "ok")
    /\ IF cmd.audio
       THEN pc' = "audio" /\ todo' = todo /\ cmd' = cmd
       ELSE /\ pc' = After("add", Tail(todo))
            /\ todo' = Tail(todo)
            /\ cmd' = [cmd EXCEPT !.wiggles = Tail(@)]
    /\ UNCHANGED <<ops, relative, dbpath, cache, res, cur, reports, rendered, err>>

\* the outcome of an analysis run on a path: a path that names no media
\* file makes ffmpeg fail
Analysis(path, outcome) == IF Exists(path) THEN outcome ELSE "CalledProcessError"

\* the audio analysis of add (lines 364-368); an exception of the analysis
\* is not caught and ends the command.  The wiggle is the one this path was
\* handed: the option for a path of the command line, the default for an
\* entry of a directory.
AddAudio(vo, so, sil) ==
    /\ pc = "audio"
    /\ LET v  == Analysis(cur.path, vo)
           s  == Analysis(cur.path, so)
           w  == Head(cmd.wiggles)
           c1 == CacheSet(cache, AnalysisKey(cur.path, "volume_stats"), VolumeStats)
           c2 == CacheSet(c1.store, AnalysisKey(cur.path, "silences"), sil).store
       IN  /\ cache' = IF v # "ok" THEN cache ELSE IF s # "ok" THEN c1.store ELSE c2
           /\ err' = IF v # "ok" THEN v ELSE IF s # "ok" THEN s ELSE "none"
           /\ last' = [Step("AddAudio", cur.real, cur.path, IF v # "ok" THEN v ELSE s)
                         EXCEPT !.asked = IF v # "ok" THEN NoAsk
                                          ELSE Asked(c1.value.items[1], w)]
    /\ IF err' = "none"
       THEN /\ pc' = After("add", Tail(todo))
            /\ todo' = Tail(todo)
            /\ cmd' = [cmd EXCEPT !.wiggles = Tail(@)]
       ELSE /\ pc' = "done"
            /\ todo' = <<>>
            /\ cmd' = [cmd EXCEPT !.wiggles = <<>>]
    /\ UNCHANGED <<ops, relative, dbpath, index, writer, res, cur, reports, rendered>>

\* ------------------------------------------------------------ the rm command
\* rm (lines 420-425)
CliRm(paths, opt) ==
    /\ pc = "idle"
    /\ ops + FileCount(paths) <= MaxOps
    /\ ops' = ops + FileCount(paths)
    /\ pc' = "rm"
    /\ cmd' = [NoCmd EXCEPT !.name = "rm", !.relative = Policy(opt, relative),
                            !.dir = IsDir(paths[1]),
                            !.files = FileCount(paths)]
    /\ todo' = paths
    /\ last' = Step("CliRm", <<>>, <<>>, "none")
    /\ UNCHANGED <<relative, dbpath, index, writer, cache, res, cur, reports, rendered, err>>

\* Database.remove on a directory (lines 373-374)
RemoveDirectory ==
    /\ pc = "rm"
    /\ IsDir(Head(todo))
    /\ todo' = ApplyRecursive(Head(todo)) \o Tail(todo)
    /\ last' = Step("RemoveDirectory", Head(todo), <<>>, "none")
    /\ UNCHANGED <<ops, relative, dbpath, index, writer, cache, pc, cmd, res, cur,
                   reports, rendered, err>>

\* Database.remove on a file (lines 376-389)
RemoveFile ==
    /\ pc = "rm"
    /\ ~IsDir(Head(todo))
    /\ LET real == Head(todo)
           path == StoredPath(real, cmd.relative)
           c1   == CachePop(cache, AnalysisKey(path, "volume_stats")).store
           c2   == CachePop(c1, AnalysisKey(path, "silences")).store
       IN  /\ reports' = Append(reports, Report("path", path))
           /\ index' = Commit(DeleteByTerm(index, path), <<>>)
           /\ cache' = c2
           /\ last' = Step("RemoveFile", real, path, "ok")
    /\ todo' = Tail(todo)
    /\ pc' = After("rm", Tail(todo))
    /\ UNCHANGED <<ops, relative, dbpath, writer, cmd, res, cur, rendered, err>>

\* -------------------------------------------------------- the search command
\* the image name when --image is not given (lines 439-440); the queries
\* tried have no blank for strip() and replace(' ', '+') to change
ImageDefault(query, webm) == <<query, IF webm THEN ".webm" ELSE ".png">>

\* '%03d' % i
Pad3(i) ==
    LET digit == <<"0", "1", "2", "3", "4", "5", "6", "7", "8", "9">>
    IN  << digit[((i \div 100) % 10) + 1], digit[((i \div 10) % 10) + 1],
           digit[(i % 10) + 1] >>

\* image_fn of result i (lines 462-464): numbered unless --rand
ImageFn(image, rand, i) ==
    IF rand THEN image ELSE <<image[1]>> \o Pad3(i) \o <<image[2]>>

\* search (lines 436-454): run the query; with --rand one result is picked
CliSearch(query, webm, accurate, rand, wiggle, upload, image, pick) ==
    /\ pc = "idle"
    /\ LET r == DbSearch(index, query) IN
       /\ pick \in 1..Max2(Len(r), 1)
       /\ rand \/ pick = 1
       /\ res' = IF r = <<>> THEN <<>> ELSE IF rand THEN <<r[pick]>> ELSE r
    /\ ops + Len(res') <= MaxOps
    /\ ops' = ops + Len(res')
    /\ pc' = After("search", res')
    /\ cmd' = [NoCmd EXCEPT !.name = "search", !.query = query, !.webm = webm,
                            !.accurate = accurate, !.rand = rand,
                            !.wiggle = wiggle, !.upload = upload,
                            !.image = IF image = <<>> THEN ImageDefault(query, webm)
                                      ELSE image]
    /\ last' = Step("CliSearch", <<>>, <<>>, "none")
    /\ UNCHANGED <<relative, dbpath, index, writer, cache, todo, cur, reports, rendered, err>>

\* the two cache.get calls of the accurate branch (lines 470-477): the store
\* afterwards, the silences to clip with, what silencedetect was asked for
\* when it ran, and the exception raised
FindSilences(store, path, wiggle, vo, so, sil) ==
    LET g1 == CacheGet(store, AnalysisKey(path, "volume_stats"),
                       Callback(Analysis(path, vo), VolumeStats))
        g2 == CacheGet(g1.store, AnalysisKey(path, "silences"),
                       Callback(Analysis(path, so), sil))
        ask == IF g2.calls > 0 THEN Asked(g1.value.items[1], wiggle) ELSE NoAsk
    IN  IF g1.exc # "none"
        THEN [store |-> g1.store, silences |-> PyList(<<>>), asked |-> NoAsk,
              exc |-> g1.exc]
        ELSE IF g2.exc # "none"
        THEN [store |-> g2.store, silences |-> PyList(<<>>), asked |-> ask,
              exc |-> g2.exc]
        ELSE [store |-> g2.store, silences |-> g2.value, asked |-> ask,
              exc |-> "none"]

\* the outcome of get_clip / get_image on a path: a path that names no media
\* file makes ffmpeg fail
Render(path, outcome) == IF Exists(path) THEN outcome ELSE "CalledProcessError"

\* one turn of the loop over the results (lines 456-490).  Only ValueError
\* is caught around the analysis; an exception of the analysis, of the
\* rendering or of the upload ends the command where it is raised.
SearchResult(vo, so, sil, ro, uo) ==
    /\ pc = "search"
    /\ LET ev == Head(res)
           i  == Len(SelectSeq(reports, LAMBDA r : r.kind = "result"))
           f  == IF cmd.webm /\ cmd.accurate
                 THEN FindSilences(cache, ev.path, cmd.wiggle, vo, so, sil)
                 ELSE [store |-> cache, silences |-> PyList(<<>>), asked |-> NoAsk,
                       exc |-> "none"]
           t  == GetClipTimes(ev, Triples(f.silences), cmd.wiggle)
           name == ImageFn(cmd.image, cmd.rand, i)
           crash == f.exc \notin {"none", "ValueError"}
           r  == IF crash THEN "none" ELSE Render(ev.path, ro)
           u  == IF r = "ok" /\ cmd.upload THEN uo ELSE "none"
           shot == IF cmd.webm
                   THEN [kind |-> "clip", path |-> ev.path, start |-> t[1],
                         time |-> t[2], name |-> name, silences |-> f.silences]
                   ELSE [kind |-> "image", path |-> ev.path, start |-> ev.start * Tick,
                         time |-> ((ev.start + ev.end) * Tick) \div 2,
                         name |-> name, silences |-> PyList(<<>>)]
           failed == IF crash THEN f.exc
                     ELSE IF r # "ok" THEN r
                     ELSE IF u \notin {"none", "ok"} THEN u
                     ELSE "none"
       IN  /\ cache' = f.store
           /\ last' = [Step("SearchResult", <<>>, ev.path,
                            IF f.exc = "none" THEN "ok" ELSE f.exc)
                         EXCEPT !.asked = f.asked]
           /\ err' = failed
           /\ res' = IF failed = "none" THEN Tail(res) ELSE <<>>
           /\ pc' = IF failed = "none" THEN After("search", Tail(res)) ELSE "done"
           /\ rendered' = IF r = "ok" THEN Append(rendered, shot) ELSE rendered
           /\ reports' = reports
                \o <<Report("result", ev.path)>>
                \o (IF cmd.webm /\ cmd.accurate
                    THEN <<Report("finding", ev.path)>> ELSE <<>>)
                \o (IF cmd.webm /\ ~crash
                    THEN << ReportBy("adjusted", ev.path,
                                     << t[1] - ev.start * Tick,
                                        (t[1] + t[2]) - ev.end * Tick >>),
                            Report("rendering", ev.path) >>
                    ELSE <<>>)
                \o (IF r = "ok" THEN <<Report("image", name)>> ELSE <<>>)
                \o (IF u = "ok" THEN <<Report("url", name)>> ELSE <<>>)
    /\ UNCHANGED <<ops, relative, dbpath, index, writer, cmd, todo, cur>>

Next ==
    \/ \E rel \in BOOLEAN : CliInit(rel) /\ UNCHANGED <<cacheVars, clipVars, raceVars>>
    \/ Exit /\ UNCHANGED <<cacheVars, clipVars, raceVars>>
    \/ \E a \in AddArgs :
          CliAdd(a.paths, a.opt, a.audio, a.wiggle)
          /\ UNCHANGED <<cacheVars, clipVars, raceVars>>
    \/ AddDirectory /\ UNCHANGED <<cacheVars, clipVars, raceVars>>
    \/ \E exc \in ReadSubsOutcomes \ {"ok"} :
          AddExtractFailed(exc) /\ UNCHANGED <<cacheVars, clipVars, raceVars>>
    \/ AddExtracted /\ UNCHANGED <<cacheVars, clipVars, raceVars>>
    \/ AddEvent /\ UNCHANGED <<cacheVars, clipVars, raceVars>>
    \/ AddCommit /\ UNCHANGED <<cacheVars, clipVars, raceVars>>
    \/ \E vo \in AnalysisOutcomes, so \in SilenceOutcomes, sil \in SilenceLists :
          AddAudio(vo, so, sil) /\ UNCHANGED <<cacheVars, clipVars, raceVars>>
    \/ \E a \in RmArgs :
          CliRm(a.paths, a.opt) /\ UNCHANGED <<cacheVars, clipVars, raceVars>>
    \/ RemoveDirectory /\ UNCHANGED <<cacheVars, clipVars, raceVars>>
    \/ RemoveFile /\ UNCHANGED <<cacheVars, clipVars, raceVars>>
    \/ \E query \in Queries, a \in SearchArgs, pick \in 1..MaxOps :
          CliSearch(query, a.webm, a.accurate, a.rand, a.wiggle, a.upload, a.image, pick)
          /\ UNCHANGED <<cacheVars, clipVars, raceVars>>
    \* the analysis and the upload have an outcome when they are run
    \/ \E vo \in (IF cmd.webm /\ cmd.accurate THEN AnalysisOutcomes ELSE {"ok"}),
          so \in (IF cmd.webm /\ cmd.accurate THEN SilenceOutcomes ELSE {"ok"}),
          sil \in SilenceLists, ro \in RenderOutcomes,
          uo \in (IF cmd.upload THEN UploadOutcomes ELSE {"ok"}) :
          SearchResult(vo, so, sil, ro, uo)
          /\ UNCHANGED <<cacheVars, clipVars, raceVars>>

Spec == Init /\ [][Next]_vars

\* ------------------------------------------------ the Cache class by itself
\* the keys and values the calls are made with
CacheKeys == { PyStr(<<"k">>), AnalysisKey(<<"vid", "a.mkv">>, "silences") }

Nums == { PyNum(n) : n \in 0..MaxNum }

CacheValues == Nums \cup { PyList(<<x>>) : x \in Nums } \cup { PyTuple(<<x>>) : x \in Nums }

\* the defaults a caller passes as miss
Defaults == { PyNone, PyList(<<>>) }

\* what a miss callback can do: return a value, or raise
CallbackOutcomes == {"ok", "TypeError", "ValueError"}

InitCache ==
    /\ relative = FALSE
    /\ dbpath = <<"db">>
    /\ index = <<>>
    /\ writer = <<>>
    /\ cache = EmptyStore
    /\ pc = "idle"
    /\ cmd = NoCmd
    /\ todo = <<>>
    /\ res = <<>>
    /\ cur = NoCur
    /\ reports = <<>>
    /\ rendered = <<>>
    /\ err = "none"
    /\ ops = 0
    /\ last = NoStep
    /\ shadow = EmptyStore
    /\ lastOp = NoOp
    /\ clip = NoClip
    /\ disk = NoFile
    /\ procs = NoProcs

\* the call just made, as the next call remembers it
Prev == [op |-> lastOp.op, key |-> lastOp.key, callable |-> lastOp.callable,
         outcome |-> lastOp.outcome, ret |-> lastOp.ret, exc |-> lastOp.exc]

\* cache.set(key, value)
ApiSet(key, value) ==
    LET r == CacheSet(cache, key, value) IN
    /\ cache' = r.store
    /\ shadow' = WriteFile(shadow, key, value)
    /\ lastOp' = [NoOp EXCEPT !.op = "set", !.key = key, !.arg = value,
                              !.ret = r.value, !.pre = cache,
                              !.preShadow = shadow, !.prev = Prev]
    /\ UNCHANGED <<dbVars, clipVars, raceVars>>

\* cache.get(key, miss)
ApiGet(key, miss) ==
    LET r == CacheGet(cache, key, miss) IN
    /\ cache' = r.store
    /\ shadow' = IF r.store = cache THEN shadow ELSE WriteFile(shadow, key, miss.value)
    /\ lastOp' = [NoOp EXCEPT !.op = "get", !.key = key, !.arg = miss.value,
                              !.callable = miss.callable, !.outcome = miss.outcome,
                              !.ret = r.value, !.calls = r.calls, !.exc = r.exc,
                              !.pre = cache, !.preShadow = shadow, !.prev = Prev]
    /\ UNCHANGED <<dbVars, clipVars, raceVars>>

\* cache.pop(key)
ApiPop(key) ==
    LET r == CachePop(cache, key) IN
    /\ cache' = r.store
    /\ shadow' = IF key \in DOMAIN shadow THEN Unlink(shadow, key) ELSE shadow
    /\ lastOp' = [NoOp EXCEPT !.op = "pop", !.key = key, !.ret = r.value,
                              !.pre = cache, !.preShadow = shadow, !.prev = Prev]
    /\ UNCHANGED <<dbVars, clipVars, raceVars>>

NextCache ==
    \/ \E key \in CacheKeys, value \in CacheValues : ApiSet(key, value)
    \/ \E key \in CacheKeys, d \in Defaults : ApiGet(key, Default(d))
    \/ \E key \in CacheKeys, o \in CallbackOutcomes, value \in CacheValues :
          ApiGet(key, Callback(o, value))
    \/ \E key \in CacheKeys : ApiPop(key)

SpecCache == InitCache /\ [][NextCache]_vars

\* ------------------------------------------------- get_clip_times by itself
\* the silence intervals drawn: (start, end, duration) in seconds,
\* start < end, duration as detected
Intervals == { <<p[1], p[2], p[2] - p[1]>> :
                 p \in { q \in (0..MaxT) \X (0..MaxT) : q[1] < q[2] } }

SilenceSeqs == UNION { [1..n -> Intervals] : n \in 0..MaxSil }

\* the events drawn: start and end in ms, on whole seconds
Events == { [start |-> MsPerSec * p[1], end |-> MsPerSec * p[2]] :
              p \in { q \in (0..MaxT) \X (0..MaxT) : q[1] <= q[2] } }

InitClip ==
    /\ relative = FALSE
    /\ dbpath = <<"db">>
    /\ index = <<>>
    /\ writer = <<>>
    /\ cache = EmptyStore
    /\ pc = "idle"
    /\ cmd = NoCmd
    /\ todo = <<>>
    /\ res = <<>>
    /\ cur = NoCur
    /\ reports = <<>>
    /\ rendered = <<>>
    /\ err = "none"
    /\ ops = 0
    /\ last = NoStep
    /\ shadow = EmptyStore
    /\ lastOp = NoOp
    /\ disk = NoFile
    /\ procs = NoProcs
    /\ \E ev \in Events, sil \in SilenceSeqs, w \in 0..MaxW :
          clip = [NoClip EXCEPT !.event = ev, !.silences = sil, !.wiggle = w]

\* start, duration = get_clip_times(ev, silences, wiggle)
Resolve ==
    /\ ~clip.done
    /\ clip' = [clip EXCEPT !.done = TRUE,
                            !.result = GetClipTimes(clip.event, clip.silences, clip.wiggle)]
    /\ UNCHANGED <<dbVars, cache, cacheVars, raceVars>>

NextClip == Resolve

SpecClip == InitClip /\ [][NextClip]_vars

\* ======================================================== the properties
NonComment(events) == SelectSeq(events, LAMBDA ev : ~ev.is_comment)

\* the documents a file contributes: one per non-comment event
DocsFor(real, path) ==
    LET nc == NonComment(SubsOf(real))
    IN  [i \in 1..Len(nc) |-> [path |-> path, start |-> nc[i].start,
                               end |-> nc[i].end, content |-> nc[i].plaintext]]

DocsOfPath(ix, path) == SelectSeq(ix, LAMBDA d : d.path = path)

PathsOf(ix) == { ix[i].path : i \in 1..Len(ix) }

\* C1: Database.add on one file is all-or-nothing.  While the documents of
\* the file are being written a reader of the index sees none of them; once
\* add has committed, the index is the old index followed by exactly one
\* document (stored path, start, end, content) per non-comment event of the
\* file; when extraction fails the index is exactly as before the call.
C1_AddAllOrNothing ==
    /\ last.step \in {"AddExtracted", "AddEvent"} => index = last.pre
    /\ last.step = "AddCommit" =>
          /\ Len(index) = Len(last.pre) + Len(NonComment(SubsOf(last.real)))
          /\ SubSeq(index, 1, Len(last.pre)) = last.pre
          /\ \A i \in 1..Len(NonComment(SubsOf(last.real))) :
                LET d  == index[Len(last.pre) + i]
                    ev == NonComment(SubsOf(last.real))[i]
                IN  /\ d.path = StoredPath(last.real, cmd.relative)
                    /\ d.start = ev.start /\ d.end = ev.end
                    /\ d.content = ev.plaintext
    /\ last.step = "AddExtractFailed" => index = last.pre /\ writer = <<>>

\* a file with a comment event has been committed to a non-empty index
C1_Witness ==
    /\ last.step = "AddCommit"
    /\ last.real = <<"vid", "a.mkv">>
    /\ last.pre # <<>>
    /\ Len(index) = Len(last.pre) + 2

\* C2: Database.remove on a file deletes every document stored under the
\* resolved path, leaves the documents of every other path as they were, and
\* is a no-op without error when no document has that path.
C2_RemoveFrame ==
    last.step = "RemoveFile" =>
        /\ last.path = StoredPath(last.real, cmd.relative)
        /\ DocsOfPath(index, last.path) = <<>>
        /\ \A q \in PathsOf(last.pre) \ {last.path} :
              DocsOfPath(index, q) = DocsOfPath(last.pre, q)
        /\ Len(index) = Len(last.pre) - Len(DocsOfPath(last.pre, last.path))
        /\ (DocsOfPath(last.pre, last.path) = <<>> => index = last.pre)
        /\ err = "none"

\* a remove that deleted the documents of one file and kept another's
C2_Witness ==
    /\ last.step = "RemoveFile"
    /\ DocsOfPath(last.pre, last.path) # <<>>
    /\ index # <<>>

\* the spellings of a file's path under which the program caches its
\* analysis: the stored path (add, remove) and the result path (search)
Spellings(real) ==
    { StoredPath(real, cmd.relative),
      NormPath(Join(dbpath, StoredPath(real, cmd.relative))) }

AnalysisKinds == {"volume_stats", "silences"}

\* C3: after Database.remove(path) has returned, the cache holds no
\* volume_stats or silences entry of that media file, whether add or the
\* search session wrote it, under either path policy.
C3_RemoveEvictsCache ==
    last.step = "RemoveFile" =>
        \A p \in Spellings(last.real), kind \in AnalysisKinds :
            NormalizeKey(AnalysisKey(p, kind)) \notin DOMAIN cache

\* the entry names of the directory that sort before / after a name
Before(name) == { ListDir(MediaDir)[i] : i \in 1..Len(ListDir(MediaDir)) } \cap
                { n \in {"a.mkv", "ab.mkv", "b.mkv"} : LexLess(CodePoints(n), CodePoints(name)) }

EntryNames == { ListDir(MediaDir)[i] : i \in 1..Len(ListDir(MediaDir)) }

\* the files whose path the command has reported, in order
Visited == SelectSeq(reports, LAMBDA r : r.kind = "path")

Failed == { r.path : r \in { reports[i] : i \in 1..Len(reports) } \cap
                           { Report("error", StoredPath(f, cmd.relative)) : f \in MediaFiles } }

Last(p) == p[Len(p)]

\* C8: Database.add on a directory visits the entries in lexicographic order
\* of their names, and an extraction failure on an earlier file is reported
\* and skipped: the later files are still visited and indexed by the call.
C8_DirectoryOrder ==
    (cmd.name = "add" /\ cmd.dir) =>
        \* the files visited so far are the lexicographically first entries,
        \* in ascending order
        /\ \A i \in 1..Len(Visited) :
              /\ Last(Visited[i].path) \in EntryNames
              /\ Cardinality(Before(Last(Visited[i].path))) = i - 1
        \* a failed extraction leaves the index alone, is reported, and the
        \* call goes on with the entries after it
        /\ last.step = "AddExtractFailed" =>
              /\ index = last.pre
              /\ last.path \in Failed
              /\ err = "none"
              /\ Len(todo) = Cardinality(EntryNames) - Len(Visited)
              /\ (todo # <<>> => pc = "add")
        \* when the call returns, every entry was visited and the index ends
        \* with the documents of the last entry unless its extraction failed
        /\ (pc = "done" /\ err = "none") =>
              /\ Len(Visited) = Cardinality(EntryNames)
              /\ \A f \in MediaFiles :
                    StoredPath(f, cmd.relative) \notin Failed =>
                        Len(DocsOfPath(index, StoredPath(f, cmd.relative)))
                            >= Len(DocsFor(f, StoredPath(f, cmd.relative)))

\* a.mkv failed to extract and b.mkv was indexed by the same directory add
C8_Witness ==
    /\ cmd.name = "add" /\ cmd.dir /\ pc = "done" /\ err = "none"
    /\ StoredPath(<<"vid", "a.mkv">>, cmd.relative) \in Failed
    /\ DocsOfPath(index, StoredPath(<<"vid", "a.mkv">>, cmd.relative)) = <<>>
    /\ DocsOfPath(index, StoredPath(<<"vid", "b.mkv">>, cmd.relative)) # <<>>

\* the default clip boundaries of an event: no silence used
DefaultClip(ev) == GetClipTimes(ev, <<>>, cmd.wiggle)

\* C9: in the search session with silence-aware clipping, a failed audio
\* analysis of a result degrades to an empty silence list: the result is
\* rendered with the default boundaries, the failure is reported, no
\* silences are cached for it, and the session goes on.
C9_AnalysisFailureDegrades ==
    (last.step = "SearchResult" /\ cmd.webm /\ cmd.accurate /\ last.outcome # "ok") =>
        /\ err = "none"
        /\ rendered # <<>>
        /\ Last(rendered).path = last.path
        /\ Last(rendered).silences = PyList(<<>>)
        /\ \E i \in 1..Len(reports) : reports[i].kind = "error"
        /\ (NormalizeKey(AnalysisKey(last.path, "silences")) \in DOMAIN cache
               => NormalizeKey(AnalysisKey(last.path, "silences")) \in DOMAIN last.preCache)

\* C10: in a multi-file add with audio analysis, a failed analysis of one
\* file is caught and reported and the add goes on with the next file.
C10_AudioFailureContinues ==
    (last.step = "AddAudio" /\ last.outcome # "ok"
        /\ cmd.files > 1 /\ Len(Visited) < cmd.files) =>
        /\ err = "none"
        /\ \E i \in 1..Len(reports) : reports[i].kind = "error"
        /\ pc = "add"
        /\ Len(todo) = cmd.files - Len(Visited)

\* ------------------------------------------------------ Cache properties
RECURSIVE ListForm(_)
\* a value as a JSON reader sees it: every tuple is a list
ListForm(v) ==
    IF v.tag = "tuple" \/ v.tag = "list"
    THEN PyList([i \in 1..Len(v.items) |-> ListForm(v.items[i])])
    ELSE v

\* the cache file of the key of the call just made
OpFile == NormalizeKey(lastOp.key)

\* the other files of the cache are as before the call
OthersKept ==
    /\ DOMAIN cache \ {OpFile} = DOMAIN lastOp.pre \ {OpFile}
    /\ \A f \in DOMAIN cache \ {OpFile} : cache[f] = lastOp.pre[f]

\* the call before the last one was a get with a callback on the same key
\* that returned a value (from the cache or from the callback)
GetTwice ==
    /\ lastOp.op = "get" /\ lastOp.callable
    /\ lastOp.prev.op = "get" /\ lastOp.prev.callable
    /\ lastOp.prev.key = lastOp.key
    /\ lastOp.prev.exc = "none" /\ lastOp.prev.ret # PyCallable

\* C4 as claimed: Cache.get(key, onMiss) is get-or-compute.  On a hit onMiss
\* is not called and the stored value is returned; on a miss onMiss is called
\* once and its result is stored under key and returned; of two successive
\* get(key, onMiss) the second does not call onMiss and returns the same
\* value as the first.
C4_GetOrComputeSameValue ==
    (lastOp.op = "get" /\ lastOp.callable) =>
        /\ OpFile \in DOMAIN lastOp.pre =>
              /\ lastOp.calls = 0
              /\ lastOp.ret = JsonLoads(lastOp.pre[OpFile])
              /\ cache = lastOp.pre
        /\ (OpFile \notin DOMAIN lastOp.pre /\ lastOp.outcome = "ok") =>
              /\ lastOp.calls = 1
              /\ lastOp.ret = lastOp.arg
              /\ OpFile \in DOMAIN cache
              /\ JsonLoads(cache[OpFile]) = ListForm(lastOp.arg)
              /\ OthersKept
        /\ GetTwice => lastOp.calls = 0 /\ lastOp.ret = lastOp.prev.ret

\* C4 amended: as claimed, except that the second get returns the first
\* one's value as JSON reads it back: equal to it with every tuple turned
\* into a list.
C4_GetOrCompute ==
    (lastOp.op = "get" /\ lastOp.callable) =>
        /\ OpFile \in DOMAIN lastOp.pre =>
              /\ lastOp.calls = 0
              /\ lastOp.ret = JsonLoads(lastOp.pre[OpFile])
              /\ cache = lastOp.pre
        /\ (OpFile \notin DOMAIN lastOp.pre /\ lastOp.outcome = "ok") =>
              /\ lastOp.calls = 1
              /\ lastOp.ret = lastOp.arg
              /\ OpFile \in DOMAIN cache
              /\ JsonLoads(cache[OpFile]) = ListForm(lastOp.arg)
              /\ OthersKept
        /\ GetTwice => lastOp.calls = 0 /\ lastOp.ret = ListForm(lastOp.prev.ret)

\* a second get served from the cache after a first get that computed a tuple
C4_Witness ==
    /\ GetTwice
    /\ lastOp.prev.ret.tag = "tuple"
    /\ OpFile \in DOMAIN lastOp.pre
    /\ lastOp.ret.tag = "list"

\* what the finite map gives for the key of the call just made
Mapped(default) ==
    IF lastOp.key \in DOMAIN lastOp.preShadow
    THEN lastOp.preShadow[lastOp.key] ELSE default

MappedAsJson(default) ==
    IF lastOp.key \in DOMAIN lastOp.preShadow
    THEN ListForm(lastOp.preShadow[lastOp.key]) ELSE default

\* C5 as claimed: the cache is a finite map over keys.  get(key) returns the
\* value of the most recent set(key, v) not followed by pop(key), else the
\* default; set returns its argument; pop returns what get would and leaves
\* the key absent; get without onMiss and pop on a missing key change nothing
\* and raise nothing.
C5_FiniteMapExact ==
    /\ DOMAIN cache = { NormalizeKey(k) : k \in DOMAIN shadow }
    /\ (lastOp.op = "get" /\ ~lastOp.callable) =>
          /\ lastOp.ret = Mapped(lastOp.arg)
          /\ cache = lastOp.pre
          /\ lastOp.exc = "none"
    /\ lastOp.op = "set" =>
          /\ lastOp.ret = lastOp.arg
          /\ shadow[lastOp.key] = lastOp.arg
          /\ OthersKept
    /\ lastOp.op = "pop" =>
          /\ lastOp.ret = Mapped(PyNone)
          /\ OpFile \notin DOMAIN cache
          /\ OthersKept
          /\ (OpFile \notin DOMAIN lastOp.pre => cache = lastOp.pre)
          /\ lastOp.exc = "none"

\* C5 amended: as claimed, except that get and pop return the value of the
\* most recent set as JSON reads it back: with every tuple turned into a
\* list.
C5_FiniteMap ==
    /\ DOMAIN cache = { NormalizeKey(k) : k \in DOMAIN shadow }
    /\ (lastOp.op = "get" /\ ~lastOp.callable) =>
          /\ lastOp.ret = MappedAsJson(lastOp.arg)
          /\ cache = lastOp.pre
          /\ lastOp.exc = "none"
    /\ lastOp.op = "set" =>
          /\ lastOp.ret = lastOp.arg
          /\ shadow[lastOp.key] = lastOp.arg
          /\ OthersKept
    /\ lastOp.op = "pop" =>
          /\ lastOp.ret = MappedAsJson(PyNone)
          /\ OpFile \notin DOMAIN cache
          /\ OthersKept
          /\ (OpFile \notin DOMAIN lastOp.pre => cache = lastOp.pre)
          /\ lastOp.exc = "none"

\* a pop that returned the list form of a tuple set earlier, another key staying
C5_Witness ==
    /\ lastOp.op = "pop"
    /\ lastOp.key \in DOMAIN lastOp.preShadow
    /\ lastOp.preShadow[lastOp.key].tag = "tuple"
    /\ lastOp.ret.tag = "list"
    /\ DOMAIN cache # {}

\* ------------------------------------------------ get_clip_times properties
\* the silence list is sorted ascending by start
SortedByStart(sil) == \A i \in 1..Len(sil), j \in 1..Len(sil) : i < j => sil[i][1] <= sil[j][1]

\* the intervals whose end lies within wiggle of the event start
PreCandidates(ev, sil, w) ==
    { i \in 1..Len(sil) : /\ Tick * ev.start - TickS * w <= TickS * sil[i][2]
                          /\ TickS * sil[i][2] <= Tick * ev.start + TickS * w }

\* the intervals whose start lies within wiggle of the event end
PostCandidates(ev, sil, w) ==
    { i \in 1..Len(sil) : /\ Tick * ev.end - TickS * w <= TickS * sil[i][1]
                          /\ TickS * sil[i][1] <= Tick * ev.end + TickS * w }

Lowest(S)  == CHOOSE i \in S : \A j \in S : i <= j
Highest(S) == CHOOSE i \in S : \A j \in S : i >= j

Least(S)    == CHOOSE x \in S : \A y \in S : x <= y
Greatest(S) == CHOOSE x \in S : \A y \in S : x >= y

\* a third of a silence duration and half of wiggle, in ticks
Third(dur) == (TickS * dur) \div 3
Half(w)    == (TickS * w) \div 2

\* the clip start of the specification, in ticks
RefClipStart(ev, sil, w) ==
    LET P == PreCandidates(ev, sil, w) IN
    IF P = {} THEN Tick * ev.start - Half(w)
    ELSE LET iv == sil[Lowest(P)] IN
         Greatest({ TickS * iv[2] - Least({Third(iv[3]), Half(w)}),
                    Tick * ev.start - TickS * w, 0 })

\* the duration before the clamp at 0, when a post-roll silence is found
RefRawDuration(ev, sil, w) ==
    LET iv == sil[Highest(PostCandidates(ev, sil, w))] IN
    Least({ TickS * iv[1] + Least({Third(iv[3]), Half(w)}) - RefClipStart(ev, sil, w),
            Tick * ev.end + TickS * w - RefClipStart(ev, sil, w) })

\* the clip duration of the specification
RefClipDuration(ev, sil, w) ==
    IF PostCandidates(ev, sil, w) = {} THEN Tick * (ev.end - ev.start) + TickS * w
    ELSE Greatest({ RefRawDuration(ev, sil, w), 0 })

\* C6: for every event, wiggle and start-sorted silence list, get_clip_times
\* returns the clip start and duration of the specification: the first
\* interval in ascending order whose end is within wiggle of the event start
\* sets the start, the first in descending order whose start is within
\* wiggle of the event end sets the duration, the defaults apply otherwise.
C6_ClipMatchesReference ==
    (clip.done /\ SortedByStart(clip.silences)) =>
        clip.result = << RefClipStart(clip.event, clip.silences, clip.wiggle),
                         RefClipDuration(clip.event, clip.silences, clip.wiggle) >>

\* two pre-roll and two post-roll candidates of different starts
C6_Witness ==
    /\ clip.done
    /\ SortedByStart(clip.silences)
    /\ Cardinality(PreCandidates(clip.event, clip.silences, clip.wiggle)) >= 2
    /\ Cardinality(PostCandidates(clip.event, clip.silences, clip.wiggle)) >= 2
    /\ clip.silences[1][1] # clip.silences[2][1]
    /\ clip.result[2] > 0

\* C7: the clip duration get_clip_times returns is never negative, for every
\* event with end >= start, wiggle >= 0 and silence list.
C7_DurationNotNegative ==
    clip.done => clip.result[2] >= 0

\* the post-roll silence starts before the chosen clip start: the raw
\* duration is negative and the result is clamped to 0
C7_Witness ==
    /\ clip.done
    /\ PostCandidates(clip.event, clip.silences, clip.wiggle) # {}
    /\ RefRawDuration(clip.event, clip.silences, clip.wiggle) < 0
    /\ clip.result[2] = 0

\* ------------------------------------------------------ index uniqueness
\* C12: in every state reached by add and remove calls, adding an indexed
\* file again included, no two documents of the index share the same
\* (path, start, end).
C12_UniqueEvents ==
    \A i \in 1..Len(index), j \in 1..Len(index) :
        (i # j) => <<index[i].path, index[i].start, index[i].end>>
                     # <<index[j].path, index[j].start, index[j].end>>

\* --------------------------------------------------- clip within tolerance
\* the clip end, in ticks
ClipEnd == clip.result[1] + clip.result[2]

PreFound  == PreCandidates(clip.event, clip.silences, clip.wiggle) # {}
PostFound == PostCandidates(clip.event, clip.silences, clip.wiggle) # {}

\* the clip start is within wiggle of the event start
StartWithin ==
    /\ Tick * clip.event.start - TickS * clip.wiggle <= clip.result[1]
    /\ clip.result[1] <= Tick * clip.event.start + TickS * clip.wiggle

\* C13 as claimed: for every event with 0 <= start <= end, wiggle >= 0 and
\* start-sorted silence list, both clip boundaries stay within wiggle of the
\* event: eventStart - wiggle <= clipStart <= eventStart + wiggle and
\* eventEnd - wiggle <= clipStart + clipDuration <= eventEnd + wiggle.
C13_BothWithinWiggle ==
    (clip.done /\ SortedByStart(clip.silences)) =>
        /\ StartWithin
        /\ Tick * clip.event.end - TickS * clip.wiggle <= ClipEnd
        /\ ClipEnd <= Tick * clip.event.end + TickS * clip.wiggle

\* C13 amended: the clip start stays within wiggle of the event start and the
\* clip end is never earlier than eventEnd - wiggle; the clip end is at most
\* eventEnd + wiggle except when a pre-roll silence is found and no post-roll
\* silence is: then the duration keeps its default (eventEnd - eventStart) +
\* wiggle from the refined start and the clip end is at most
\* eventEnd + 2 * wiggle.
C13_WithinWiggle ==
    (clip.done /\ SortedByStart(clip.silences)) =>
        /\ StartWithin
        /\ Tick * clip.event.end - TickS * clip.wiggle <= ClipEnd
        /\ (PostFound \/ ~PreFound) =>
              ClipEnd <= Tick * clip.event.end + TickS * clip.wiggle
        /\ (PreFound /\ ~PostFound) =>
              /\ clip.result[2] = Tick * (clip.event.end - clip.event.start)
                                    + TickS * clip.wiggle
              /\ ClipEnd <= Tick * clip.event.end + 2 * TickS * clip.wiggle

\* a pre-roll silence moved the start later than the event start, no
\* post-roll silence was found, and the clip ends beyond eventEnd + wiggle
C13_Witness ==
    /\ clip.done
    /\ SortedByStart(clip.silences)
    /\ PreFound /\ ~PostFound
    /\ clip.result[1] > Tick * clip.event.start
    /\ ClipEnd > Tick * clip.event.end + TickS * clip.wiggle

\* ------------------------------------- two processes on one cache file
\* Cache.set writes in place: gzip.open(path, 'wt') truncates the file, then
\* the gzip stream reaches it in two write(2) calls at the offset of the
\* writing process.  Cache.get is an open(2) and a series of read(2) calls,
\* each of which sees the file as it is at that moment.  Cache.pop is a get
\* followed by os.unlink: the name goes, a process that has the file open
\* keeps reading or writing it.
\*
\* The file is a sequence of cells.  The first cell is the gzip header with
\* the start of the deflate data (63 bytes for a one-character JSON text);
\* every other cell is two bytes.
RaceValues == { PyNum(0), PyTuple(<<PyNum(1)>>) }

\* len(json.dumps(value)) of a JSON text (json.dump, line 274)
RECURSIVE TextLen(_)
TextLen(t) ==
    IF t.tag = "array"
    THEN LET sum[i \in 0..Len(t.items)] ==
                 IF i = 0 THEN 0
                 ELSE sum[i - 1] + TextLen(t.items[i]) + (IF i > 1 THEN 2 ELSE 0)
         IN  2 + sum[Len(t.items)]
    ELSE IF t.tag = "none" THEN 4
    ELSE IF t.tag = "str" THEN Len(t.str) + 2
    ELSE 1

Cell(part, text, n) == [part |-> part, text |-> text, n |-> n]

\* two zero bytes: the high half of the length field of a short text, or a
\* stretch the file was extended over without being written
Zero == Cell("zero", PyNone, 0)

\* the cells of the header and the sync-flushed deflate data of a text: the
\* deflate data grow by one byte per character
DataCells(text) == 1 + (TextLen(text) - 1) \div 2

\* the final deflate block, the CRC32 and the length of the text
TrailerCells == 5

\* the gzip file of a JSON text
Stream(text) ==
    <<Cell("head", text, 0)>>
    \o [i \in 1..(DataCells(text) - 1) |-> Cell("data", text, i)]
    \o <<Cell("final", PyNone, 0), Cell("crc", text, 1), Cell("crc", text, 2),
         Cell("size", text, 0), Zero>>

\* the two write(2) calls of one Cache.set: TextIOWrapper.close flushes the
\* header and the data, GzipFile.close writes the trailer (line 273, on
\* leaving the with block)
Pieces(text) ==
    <<SubSeq(Stream(text), 1, DataCells(text)),
      SubSeq(Stream(text), DataCells(text) + 1, DataCells(text) + TrailerCells)>>

\* write(2) of cells at an offset: a shorter file is extended with zeros,
\* cells beyond the written stretch stay
WriteAt(data, off, cells) ==
    [k \in 1..Max2(Len(data), off + Len(cells)) |->
        IF k > off /\ k <= off + Len(cells) THEN cells[k - off]
        ELSE IF k <= Len(data) THEN data[k] ELSE Zero]

\* read(2) at an offset: everything from there to the end of the file
ReadAt(data, off) == SubSeq(data, off + 1, Len(data))

\* zlib on the cells read so far: the deflate stream of the text of the
\* first cell runs up to its final block
Inflate(buf) ==
    LET S == Stream(buf[1].text)
        F == DataCells(buf[1].text) + 1
    IN  IF \E k \in 1..Min2(Len(buf), F) : buf[k] # S[k] THEN "zlib.error"
        ELSE IF Len(buf) < F THEN "short"
        ELSE "eof"

\* _read_eof after the final block: CRC32 and length are compared, then zero
\* padding is skipped
ReadEof(buf) ==
    LET S == Stream(buf[1].text)
        F == DataCells(buf[1].text) + 1
    IN  IF Len(buf) < F + TrailerCells - 1 THEN "EOFError"
        ELSE IF SubSeq(buf, F + 1, F + TrailerCells - 1)
                    # SubSeq(S, F + 1, F + TrailerCells - 1) THEN "BadGzipFile"
        ELSE IF \E k \in (F + TrailerCells)..Len(buf) : buf[k] # Zero
        THEN "BadGzipFile"
        ELSE "padding"

\* what gzip.open + json.load do on a file nobody writes meanwhile (lines
\* 260-263):
\*   "missing"  os.error: no file, or BadGzipFile (not a gzip file, or a
\*              CRC32 or length that does not match)
\*   "error"    an exception get does not catch: JSONDecodeError on an empty
\*              file, EOFError on a truncated one, zlib.error on mixed bytes
\*   "value"    the JSON text was read whole
ReadWhole(d) ==
    IF ~d.exists THEN "missing"
    ELSE IF d.data = <<>> THEN "error"
    ELSE IF d.data[1] = Zero THEN "missing"
    ELSE IF Inflate(d.data) # "eof" THEN "error"
    ELSE IF ReadEof(d.data) = "EOFError" THEN "error"
    ELSE IF ReadEof(d.data) = "BadGzipFile" THEN "missing"
    ELSE "value"

\* the file under the name of the key, as open(2) finds it
Named(d) == [exists |-> d.name # 0,
             data   |-> IF d.name # 0 THEN d.inodes[d.name] ELSE <<>>]

\* a file without a name that no process has open is gone
Release(d, ps) ==
    [d EXCEPT !.inodes = [i \in Inodes |->
        IF i = d.name \/ (\E p \in Procs : ps[p].ino = i) THEN d.inodes[i] ELSE <<>>]]

\* the file open(2) creates when the name leads to none
NewInode == CHOOSE i \in Inodes :
    /\ \A p \in Procs : procs[p].ino # i
    /\ \A j \in Inodes : (\A p \in Procs : procs[p].ino # j) => i <= j

\* the file a process has open
Opened(p) == disk.inodes[procs[p].ino]

Proc(p, f) == [procs EXCEPT ![p] = f]

\* the get of a pop has returned: pop goes on to os.unlink (line 280)
Returned(p, f) == IF procs[p].op = "pop" THEN [f EXCEPT !.pc = "unlink"] ELSE f

\* get ends with an exception it does not catch
Raised(p) == [procs[p] EXCEPT !.pc = "idle", !.obs = "error", !.ret = PyNone,
                             !.ino = 0]

\* get ends in its except os.error branch (lines 263-268)
Missed(p) ==
    IF procs[p].callable
    THEN [procs[p] EXCEPT !.pc = "miss", !.ino = 0]
    ELSE Returned(p, [procs[p] EXCEPT !.pc = "idle", !.obs = "default",
                                      !.ret = procs[p].value, !.ino = 0])

\* get returns the value it read (line 269)
Loaded(p, buf) ==
    Returned(p, [procs[p] EXCEPT !.pc = "idle", !.obs = "value",
                                 !.ret = JsonLoads(buf[1].text), !.ino = 0])

\* the gzip reader once the deflate stream has ended
Ended(p, buf) ==
    IF ReadEof(buf) = "EOFError" THEN Raised(p)
    ELSE IF ReadEof(buf) = "BadGzipFile" THEN Missed(p)
    ELSE [procs[p] EXCEPT !.pc = "pad", !.buf = buf]

\* a process calls cache.get(key, miss) (line 258)
RaceCallGet(p, miss) ==
    /\ procs[p].pc = "idle"
    /\ procs' = Proc(p, [Idle EXCEPT !.pc = "ropen", !.op = "get",
                                     !.callable = miss.callable,
                                     !.value = miss.value])
    /\ disk' = disk
    /\ UNCHANGED <<dbVars, cache, cacheVars, clipVars>>

\* gzip.open(p, 'rt') (line 261): open(2) fails when there is no file
RaceOpenRead(p) ==
    /\ procs[p].pc = "ropen"
    /\ procs' = Proc(p, IF disk.name # 0
                        THEN [procs[p] EXCEPT !.pc = "header", !.ino = disk.name]
                        ELSE Missed(p))
    /\ disk' = disk
    /\ UNCHANGED <<dbVars, cache, cacheVars, clipVars>>

\* json.load(cf) (line 262), first read(2): the gzip header
RaceReadHeader(p) ==
    LET chunk == ReadAt(Opened(p), 0) IN
    /\ procs[p].pc = "header"
    /\ procs' = Proc(p,
          IF chunk = <<>> THEN Raised(p)
          ELSE IF chunk[1] = Zero THEN Missed(p)
          ELSE [procs[p] EXCEPT !.pc = "body", !.buf = chunk, !.fresh = TRUE])
    /\ disk' = Release(disk, procs')
    /\ UNCHANGED <<dbVars, cache, cacheVars, clipVars>>

\* the buffered reader reads on until a read(2) returns nothing, then the
\* bytes are inflated; a deflate stream that has not ended is read on once
\* more and is an EOFError when nothing came
RaceReadBody(p) ==
    LET chunk == ReadAt(Opened(p), Len(procs[p].buf))
        buf   == procs[p].buf
    IN
    /\ procs[p].pc = "body"
    /\ procs' = Proc(p,
          IF chunk # <<>>
          THEN [procs[p] EXCEPT !.buf = buf \o chunk, !.fresh = TRUE]
          ELSE IF Inflate(buf) = "zlib.error" THEN Raised(p)
          ELSE IF Inflate(buf) = "eof" THEN Ended(p, buf)
          ELSE IF procs[p].fresh THEN [procs[p] EXCEPT !.fresh = FALSE]
          ELSE Raised(p))
    /\ disk' = Release(disk, procs')
    /\ UNCHANGED <<dbVars, cache, cacheVars, clipVars>>

\* after the trailer the reader skips zero bytes up to the end of the file
RaceReadPadding(p) ==
    LET chunk == ReadAt(Opened(p), Len(procs[p].buf)) IN
    /\ procs[p].pc = "pad"
    /\ procs' = Proc(p,
          IF chunk = <<>> THEN [procs[p] EXCEPT !.pc = "magic"]
          ELSE IF \E k \in 1..Len(chunk) : chunk[k] # Zero THEN Missed(p)
          ELSE [procs[p] EXCEPT !.buf = @ \o chunk])
    /\ disk' = Release(disk, procs')
    /\ UNCHANGED <<dbVars, cache, cacheVars, clipVars>>

\* the reader looks for the header of a next gzip member: nothing there ends
\* the read, anything else is not a gzip header (BadGzipFile)
RaceReadMagic(p) ==
    LET chunk == ReadAt(Opened(p), Len(procs[p].buf)) IN
    /\ procs[p].pc = "magic"
    /\ procs' = Proc(p, IF chunk = <<>> THEN Loaded(p, procs[p].buf) ELSE Missed(p))
    /\ disk' = Release(disk, procs')
    /\ UNCHANGED <<dbVars, cache, cacheVars, clipVars>>

\* get computes the value: value = miss(), then self.set (lines 265-266)
RaceMiss(p) ==
    /\ procs[p].pc = "miss"
    /\ procs' = Proc(p, [procs[p] EXCEPT !.pc = "open", !.calls = @ + 1])
    /\ disk' = disk
    /\ UNCHANGED <<dbVars, cache, cacheVars, clipVars>>

\* a process calls cache.set(key, value) (line 272)
RaceCallSet(p, value) ==
    /\ procs[p].pc = "idle"
    /\ procs' = Proc(p, [Idle EXCEPT !.pc = "open", !.op = "set", !.value = value])
    /\ disk' = disk
    /\ UNCHANGED <<dbVars, cache, cacheVars, clipVars>>

\* gzip.open(path, 'wt') (line 273): the file is truncated, or created when
\* the name leads to none
RaceOpen(p) ==
    LET ino == IF disk.name # 0 THEN disk.name ELSE NewInode IN
    /\ procs[p].pc = "open"
    /\ disk' = [disk EXCEPT !.name = ino, !.inodes[ino] = <<>>]
    /\ procs' = Proc(p, [procs[p] EXCEPT !.pc = "write", !.ino = ino, !.off = 0,
                                         !.piece = 0, !.buf = <<>>, !.fresh = FALSE])
    /\ UNCHANGED <<dbVars, cache, cacheVars, clipVars>>

\* the next write(2) of the stream, at the offset of this process (line 274
\* and the end of the with block)
RaceWrite(p) ==
    LET pieces == Pieces(JsonDumps(procs[p].value))
        cells  == pieces[procs[p].piece + 1]
    IN
    /\ procs[p].pc = "write"
    /\ procs[p].piece < Len(pieces)
    /\ disk' = [disk EXCEPT !.inodes[procs[p].ino] = WriteAt(Opened(p), procs[p].off, cells)]
    /\ procs' = Proc(p, [procs[p] EXCEPT !.off = @ + Len(cells), !.piece = @ + 1])
    /\ UNCHANGED <<dbVars, cache, cacheVars, clipVars>>

\* the file is closed and set returns value (line 275); a get that computed
\* the value returns it (line 269)
RaceClose(p) ==
    /\ procs[p].pc = "write"
    /\ procs[p].piece = Len(Pieces(JsonDumps(procs[p].value)))
    /\ procs' = Proc(p, [procs[p] EXCEPT !.pc = "idle", !.obs = "value",
                                         !.ret = procs[p].value, !.ino = 0])
    /\ disk' = Release(disk, procs')
    /\ UNCHANGED <<dbVars, cache, cacheVars, clipVars>>

\* a process calls cache.pop(key) (line 277): value = self.get(key)
RaceCallPop(p) ==
    /\ procs[p].pc = "idle"
    /\ procs' = Proc(p, [Idle EXCEPT !.pc = "ropen", !.op = "pop"])
    /\ disk' = disk
    /\ UNCHANGED <<dbVars, cache, cacheVars, clipVars>>

\* os.unlink of pop (lines 279-281): the name goes, os.error is passed when
\* there is none; pop returns what its get returned (line 282)
RaceUnlink(p) ==
    /\ procs[p].pc = "unlink"
    /\ procs' = Proc(p, [procs[p] EXCEPT !.pc = "idle"])
    /\ disk' = Release([disk EXCEPT !.name = 0], procs')
    /\ UNCHANGED <<dbVars, cache, cacheVars, clipVars>>

InitRace ==
    /\ relative = FALSE
    /\ dbpath = <<"db">>
    /\ index = <<>>
    /\ writer = <<>>
    /\ cache = EmptyStore
    /\ pc = "idle"
    /\ cmd = NoCmd
    /\ todo = <<>>
    /\ res = <<>>
    /\ cur = NoCur
    /\ reports = <<>>
    /\ rendered = <<>>
    /\ err = "none"
    /\ ops = 0
    /\ last = NoStep
    /\ shadow = EmptyStore
    /\ lastOp = NoOp
    /\ clip = NoClip
    /\ disk = NoFile
    /\ procs = NoProcs

NextRace ==
    \/ \E p \in Procs, v \in RaceValues : RaceCallGet(p, Callback("ok", v))
    \/ \E p \in Procs : RaceCallGet(p, Default(PyNone))
    \/ \E p \in Procs : RaceOpenRead(p)
    \/ \E p \in Procs : RaceReadHeader(p)
    \/ \E p \in Procs : RaceReadBody(p)
    \/ \E p \in Procs : RaceReadPadding(p)
    \/ \E p \in Procs : RaceReadMagic(p)
    \/ \E p \in Procs : RaceMiss(p)
    \/ \E p \in Procs, v \in RaceValues : RaceCallSet(p, v)
    \/ \E p \in Procs : RaceOpen(p)
    \/ \E p \in Procs : RaceWrite(p)
    \/ \E p \in Procs : RaceClose(p)
    \/ \E p \in Procs : RaceCallPop(p)
    \/ \E p \in Procs : RaceUnlink(p)

SpecRace == InitRace /\ [][NextRace]_vars

\* C11: when two processes run Cache.get(key, onMiss) or Cache.set(key, v)
\* on one key concurrently the entry is never observed corrupt: every get
\* returns the default, a computed value or one complete value that a set
\* wrote, never a read error, and once the writers are done the file holds
\* one complete value.
C11_NeverCorrupt ==
    /\ \A p \in Procs :
          /\ procs[p].op \in {"get", "set"} => procs[p].obs # "error"
          /\ (procs[p].op = "get" /\ procs[p].obs = "value") =>
                \E v \in RaceValues : procs[p].ret \in {v, ListForm(v)}
    /\ (\A p \in Procs : procs[p].pc \notin {"open", "write"}) =>
          ReadWhole(Named(disk)) \in {"missing", "value"}

====
